---- MODULE Spec2Model ----
(***************************************************************************)
(* Model of fpb_tools/build.py: the environment build (env), the paired    *)
(* build (car_fob_pair), the device build (make_dev) and the image         *)
(* packager (package_device), together with the part of the file system,   *)
(* the container runtime and the logger that these functions act on.       *)
(*                                                                         *)
(* A file is modelled as an optional byte sequence: None when the path     *)
(* does not exist, Some(data) when it does.  Text is modelled by TLA+      *)
(* strings, built with \o exactly as the f-strings of the source build     *)
(* them.                                                                   *)
(***************************************************************************)
EXTENDS Naturals, Sequences, FiniteSets, TLC

VARIABLES
    \* ---- file system under dev_out ----
    parent_exists,   \* the parent directory of dev_out exists
    dir_exists,      \* dev_out exists
    bin_file,        \* dev_out/{dev_name}.bin
    eeprom_file,     \* dev_out/{dev_name}.eeprom
    img_file,        \* dev_out/{dev_name}.img
    \* ---- one call of car_fob_pair / make_dev ----
    pc,              \* position of the call
    in_args,         \* the arguments car_fob_pair was called with
    md_calls,        \* the argument records of the make_dev calls of this call
    steps,           \* the external steps make_dev has taken, in order
    cmd,             \* the docker run command make_dev handed to run_shell
    exit_code,       \* exit status of the compile command (None before it ran)
    output,          \* what run_shell returned to make_dev
    agg_calls,       \* the argument lists zip_step_returns was called with
    result,          \* what car_fob_pair returned
    err,             \* the exception the call ended with ("" if none)
    raised_in,       \* the step that raised it
    at_start,        \* the file system when the call started
    img_base,        \* the image as the call found it or another task left it
    builds,          \* the secrets mount of every docker run command issued
    \* ---- one call of env ----
    env_pc,
    env_args,        \* name and whether the manifest file exists
    env_docker,      \* calls made on the container runtime, in order
    env_images,      \* tags that exist in the container runtime
    env_logged,      \* records handed to the logger, in order
    env_build_log,   \* the log the runtime's build produced
    env_err,
    env_result

vars == << parent_exists, dir_exists, bin_file, eeprom_file, img_file,
           pc, in_args, md_calls, steps, cmd, exit_code, output, agg_calls,
           result, err, raised_in, at_start, img_base, builds,
           env_pc, env_args, env_docker, env_images, env_logged,
           env_build_log, env_err, env_result >>

fs_vars == << parent_exists, dir_exists, bin_file, eeprom_file, img_file >>
env_vars == << env_pc, env_args, env_docker, env_images, env_logged,
               env_build_log, env_err, env_result >>
\* What a step of the paired build leaves alone.
not_dev_vars == << env_pc, env_args, env_docker, env_images,
                  env_logged, env_build_log, env_err, env_result >>

(***************************************************************************)
(* Bounds of the model.                                                    *)
(***************************************************************************)
\* FW_FLASH_SIZE and FW_EEPROM_SIZE are imported from fpb_tools.device; the
\* model keeps them as two different small region sizes.
FW_FLASH_SIZE == 2
FW_EEPROM_SIZE == 1
\* How many bytes longer than its region a compiled artifact may be.
MaxOver == 1
\* The largest car_id a caller passes.
MaxCarId == 1
\* The longest image, name or deployment string.
MaxNameLen == 3
\* The longest build log and the longest text of one log entry.
MaxLog == 2
MaxText == 2

\* The fill byte b"\xff" of ljust.
PAD == 255

None == <<>>
Some(x) == <<x>>

Bytes == {1, PAD}

SeqsUpTo(S, n) == UNION {[1..k -> S] : k \in 0..n}

RECURSIVE Str(_)
\* The string spelled by a sequence of one-character strings.
Str(s) == IF s = <<>> THEN "" ELSE Head(s) \o Str(Tail(s))

NameChars == {"a", "."}

\* A name the container runtime accepts for an image, a tag or a volume:
\* it starts and ends with an alphanumeric character and has no two
\* separators in a row.
ValidName(s) ==
    /\ Len(s) >= 1
    /\ s[1] # "."
    /\ s[Len(s)] # "."
    /\ \A i \in 1..(Len(s) - 1) : ~(s[i] = "." /\ s[i + 1] = ".")

Names == {Str(s) : s \in {t \in SeqsUpTo(NameChars, MaxNameLen) : ValidName(t)}}

(***************************************************************************)
(* package_device                                                          *)
(***************************************************************************)
\* bytes.ljust with a fill byte of zero: the pad is not the erased-flash byte.
ljust_zero_fill(s, width, fill) ==
    IF Len(s) >= width THEN s
    ELSE s \o [i \in 1..(width - Len(s)) |-> 0]

\* bytes.ljust(width, fill): s itself when it is at least width long,
\* otherwise s followed by width - len(s) fill bytes.
ljust(s, width, fill) ==
    IF Len(s) >= width THEN s
    ELSE s \o [i \in 1..(width - Len(s)) |-> fill]

\* package_device opening image_path for writing before it reads its inputs:
\* a failed read leaves an empty image behind.
package_device_write_first(binf, eepf, imgf) ==
    IF binf = None \/ eepf = None
    THEN [img |-> Some(<<>>), err |-> "FileNotFoundError"]
    ELSE [img |-> Some(ljust(binf[1], FW_FLASH_SIZE, PAD)
                       \o ljust(eepf[1], FW_EEPROM_SIZE, PAD)),
          err |-> ""]

\* package_device(bin_path, eeprom_path, image_path) on the three files:
\* the image file afterwards and the exception raised ("" if none).
package_device(binf, eepf, imgf) ==
    IF binf = None
    THEN [img |-> imgf, err |-> "FileNotFoundError"]
    ELSE LET bin_data == binf[1]
             image_bin_data == ljust(bin_data, FW_FLASH_SIZE, PAD)
         IN IF eepf = None
            THEN [img |-> imgf, err |-> "FileNotFoundError"]
            ELSE LET eeprom_data == eepf[1]
                     image_eeprom_data == ljust(eeprom_data, FW_EEPROM_SIZE, PAD)
                     image_data == image_bin_data \o image_eeprom_data
                 IN [img |-> Some(image_data), err |-> ""]

(***************************************************************************)
(* Inputs and the initial state                                            *)
(***************************************************************************)
ArtifactsBin == {Some(b) : b \in SeqsUpTo(Bytes, FW_FLASH_SIZE + MaxOver)}
ArtifactsEeprom == {Some(e) : e \in SeqsUpTo(Bytes, FW_EEPROM_SIZE + MaxOver)}

\* What a build that ran earlier in the same output directory left behind.
OldBin == Some(<<1>>)
OldEeprom == Some(<<1>>)
OldImg == package_device(OldBin, OldEeprom, None).img

\* The (stdout, stderr) pairs run_shell may return.
StepResults == {[stdout |-> "make: done", stderr |-> ""],
                [stdout |-> "", stderr |-> "warning"]}

\* The car ids callers pass: the small ones and one of two digits.
CarIds == (0..MaxCarId) \cup {10 + MaxCarId}
\* The image and the name of the paired builds, and their deployments.
DefaultImage == "a"
DefaultName == "a"
Deployments == {"a", "a.a"}

NoArgs == [car_id |-> 0, deployment |-> "", car_name |-> ""]
NoCmd == [volume |-> "", tag |-> "", make_target |-> "", defines |-> "",
          bin_path |-> "", elf_path |-> "", eeprom_path |-> ""]
NoEnvArgs == [name |-> "", manifest_exists |-> FALSE, images |-> {}]

FileSystem == [dir |-> dir_exists, bin |-> bin_file, eeprom |-> eeprom_file,
               img |-> img_file]

InitFs ==
    /\ parent_exists \in BOOLEAN
    /\ dir_exists \in BOOLEAN
    /\ dir_exists => parent_exists
    /\ bin_file \in {None, OldBin}
    /\ eeprom_file \in {None, OldEeprom}
    /\ img_file \in {None, OldImg}
    /\ ~dir_exists => (bin_file = None /\ eeprom_file = None /\ img_file = None)

InitDev ==
    /\ pc = "idle"
    /\ in_args = NoArgs
    /\ md_calls = <<>>
    /\ steps = <<>>
    /\ cmd = NoCmd
    /\ exit_code = None
    /\ output = None
    /\ agg_calls = <<>>
    /\ result = None
    /\ err = ""
    /\ raised_in = ""
    /\ at_start = [dir |-> FALSE, bin |-> None, eeprom |-> None, img |-> None]

InitEnv ==
    /\ env_pc = "idle"
    /\ env_args = NoEnvArgs
    /\ env_docker = <<>>
    /\ env_logged = <<>>
    /\ env_build_log = <<>>
    /\ env_err = ""
    /\ env_result = None

\* The paired build starts in any state of the output directory.
Init ==
    /\ InitFs
    /\ InitDev
    /\ InitEnv
    /\ env_images = {}
    /\ builds = <<>>
    /\ img_base = img_file

\* An empty file system, for the specifications that do not touch it.
EmptyFs ==
    /\ parent_exists = TRUE
    /\ dir_exists = FALSE
    /\ bin_file = None
    /\ eeprom_file = None
    /\ img_file = None

(***************************************************************************)
(* zip_step_returns (fpb_tools.utils): the streams of the steps, joined in *)
(* step order.                                                             *)
(***************************************************************************)
RECURSIVE JoinField(_, _)
JoinField(rets, f) ==
    IF rets = <<>> THEN "" ELSE Head(rets)[f] \o JoinField(Tail(rets), f)

zip_step_returns(rets) ==
    [stdout |-> JoinField(rets, "stdout"), stderr |-> JoinField(rets, "stderr")]

(***************************************************************************)
(* car_fob_pair and make_dev                                               *)
(***************************************************************************)
Digits == << "0", "1", "2", "3", "4", "5", "6", "7", "8", "9" >>

RECURSIVE IntStr(_)
\* str(n) of a natural number: its decimal numeral.
IntStr(n) ==
    IF n < 10 THEN Digits[n + 1]
    ELSE IntStr(n \div 10) \o Digits[(n % 10) + 1]

\* f" CAR_ID={car_id}"
car_defines(car_id) == " CAR_ID=" \o IntStr(car_id)

\* make_target="car"
car_make_target == "car"

\* f"{image}:{name}"
Tag(image, name) == image \o ":" \o name

\* f"{image}.{name}.{deployment}.secrets.vol", the source of the /secrets mount.
SecretsVolume(image, name, deployment) ==
    image \o "." \o name \o "." \o deployment \o ".secrets.vol"

\* The docker run command make_dev builds from its arguments.
DockerRun(a) ==
    [volume |-> SecretsVolume(a.image, a.name, a.deployment),
     tag |-> Tag(a.image, a.name),
     make_target |-> a.make_target,
     defines |-> a.defines,
     bin_path |-> "/dev_out/" \o a.dev_name \o ".bin",
     elf_path |-> "/dev_out/" \o a.dev_name \o ".elf",
     eeprom_path |-> "/dev_out/" \o a.dev_name \o ".eeprom"]

\* car_fob_pair is called with an image, a name, a deployment and a car id
\* from the given sets: it builds the car defines and calls make_dev.
CarFobPairCallOn(images, names, deployments, car_ids) ==
    /\ UNCHANGED not_dev_vars
    /\ pc = "idle"
    /\ \E image \in images, name \in names, deployment \in deployments,
          car_id \in car_ids :
         /\ in_args' = [car_id |-> car_id, deployment |-> deployment,
                        car_name |-> "car"]
         /\ md_calls' = Append(md_calls,
                [image |-> image, name |-> name,
                 deployment |-> deployment, dev_name |-> "car",
                 defines |-> car_defines(car_id),
                 make_target |-> car_make_target])
    /\ at_start' = FileSystem
    /\ img_base' = img_file
    /\ pc' = "ensure_dir"
    /\ UNCHANGED << steps, cmd, exit_code, output, agg_calls, result, err,
                    raised_in, builds >>
    /\ UNCHANGED fs_vars

CarFobPairCall ==
    CarFobPairCallOn({DefaultImage}, {DefaultName}, Deployments, CarIds)

\* make_dev, "Create output directory": dev_out.mkdir() when dev_out does
\* not exist.  Path.mkdir() creates no parents and raises FileNotFoundError
\* when the parent is missing.
MakeDevEnsureDir ==
    /\ UNCHANGED not_dev_vars
    /\ pc = "ensure_dir"
    /\ steps' = Append(steps, "ensure_dir")
    /\ IF dir_exists
       THEN /\ pc' = "compile"
            /\ UNCHANGED << dir_exists, err, raised_in >>
       ELSE IF parent_exists
            THEN /\ dir_exists' = TRUE
                 /\ pc' = "compile"
                 /\ UNCHANGED << err, raised_in >>
            ELSE /\ pc' = "raised"
                 /\ err' = "FileNotFoundError"
                 /\ raised_in' = "ensure_dir"
                 /\ UNCHANGED dir_exists
    /\ UNCHANGED << parent_exists, bin_file, eeprom_file, img_file >>
    /\ UNCHANGED << in_args, md_calls, cmd, exit_code, output, agg_calls,
                    result, at_start, img_base, builds >>

\* make_dev, "Compile": the docker run command is built and handed to
\* run_shell, and make_dev is suspended at the await until the command has
\* finished.
MakeDevCompileStart ==
    /\ UNCHANGED not_dev_vars
    /\ pc = "compile"
    /\ steps' = Append(steps, "compile")
    /\ LET a == md_calls[Len(md_calls)]
       IN /\ cmd' = DockerRun(a)
          /\ builds' = Append(builds,
                 [image |-> a.image, name |-> a.name,
                  deployment |-> a.deployment,
                  volume |-> DockerRun(a).volume])
    /\ pc' = "running"
    /\ UNCHANGED fs_vars
    /\ UNCHANGED << in_args, md_calls, exit_code, output, agg_calls, result,
                    err, raised_in, at_start, img_base >>

\* The image another build leaves in dev_out.
ForeignImg == package_device(Some(<<>>), Some(<<>>), None).img

\* While make_dev is suspended in await run_shell the event loop runs other
\* coroutines; one of them writes {dev_name}.img in dev_out.
OtherTaskWritesImg ==
    /\ UNCHANGED not_dev_vars
    /\ pc = "running"
    /\ img_file # ForeignImg
    /\ img_file' = ForeignImg
    /\ img_base' = ForeignImg
    /\ UNCHANGED << parent_exists, dir_exists, bin_file, eeprom_file >>
    /\ UNCHANGED << pc, in_args, md_calls, steps, cmd, exit_code, output,
                    agg_calls, result, err, raised_in, at_start, builds >>

\* What the container's make leaves in /dev_out: each artifact is written
\* or left as it was.  It writes BIN_PATH, ELF_PATH and EEPROM_PATH only.
RunContainer(bins, eeproms) ==
    /\ bin_file' \in {bin_file} \cup bins
    /\ eeprom_file' \in {eeprom_file} \cup eeproms
    /\ UNCHANGED << parent_exists, dir_exists, img_file >>

\* make_dev catching the failure of the compile step and packaging anyway.
MakeDevCompileEndOn_swallow(bins, eeproms, results) ==
    /\ UNCHANGED not_dev_vars
    /\ pc = "running"
    /\ RunContainer(bins, eeproms)
    /\ \E code \in {0, 1} :
         /\ exit_code' = Some(code)
         /\ \E r \in results : output' = Some(r)
         /\ pc' = "package"
         /\ UNCHANGED << err, raised_in >>
    /\ UNCHANGED << in_args, md_calls, steps, cmd, agg_calls, result,
                    at_start, img_base, builds >>

\* make_dev going back to issue the compile command again after it failed.
MakeDevCompileEndOn_retry(bins, eeproms, results) ==
    /\ UNCHANGED not_dev_vars
    /\ pc = "running"
    /\ RunContainer(bins, eeproms)
    /\ \E code \in {0, 1} :
         /\ exit_code' = Some(code)
         /\ IF code = 0
            THEN /\ \E r \in results : output' = Some(r)
                 /\ pc' = "package"
                 /\ UNCHANGED << err, raised_in >>
            ELSE IF Len(steps) < 3
            THEN /\ pc' = "compile"
                 /\ UNCHANGED << output, err, raised_in >>
            ELSE /\ pc' = "raised"
                 /\ err' = "CompileError"
                 /\ raised_in' = "compile"
                 /\ UNCHANGED output
    /\ UNCHANGED << in_args, md_calls, steps, cmd, agg_calls, result,
                    at_start, img_base, builds >>

\* The compile command finishes and make_dev resumes: run_shell returns
\* (stdout, stderr) on exit status 0 and raises otherwise; make_dev has no
\* handler, so the exception ends the call.
MakeDevCompileEndOn(bins, eeproms, results) ==
    /\ UNCHANGED not_dev_vars
    /\ pc = "running"
    /\ RunContainer(bins, eeproms)
    /\ \E code \in {0, 1} :
         /\ exit_code' = Some(code)
         /\ IF code = 0
            THEN /\ \E r \in results : output' = Some(r)
                 /\ pc' = "package"
                 /\ UNCHANGED << err, raised_in >>
            ELSE /\ pc' = "raised"
                 /\ err' = "CompileError"
                 /\ raised_in' = "compile"
                 /\ UNCHANGED output
    /\ UNCHANGED << in_args, md_calls, steps, cmd, agg_calls, result,
                    at_start, img_base, builds >>

MakeDevCompileEnd ==
    MakeDevCompileEndOn(ArtifactsBin, ArtifactsEeprom, StepResults)

\* make_dev, "Package image, eeprom, and secret": the call of package_device.
MakeDevPackage ==
    /\ UNCHANGED not_dev_vars
    /\ pc = "package"
    /\ steps' = Append(steps, "package")
    /\ LET r == package_device(bin_file, eeprom_file, img_file)
       IN /\ img_file' = r.img
          /\ IF r.err = ""
             THEN /\ pc' = "packaged"
                  /\ UNCHANGED << err, raised_in >>
             ELSE /\ pc' = "raised"
                  /\ err' = r.err
                  /\ raised_in' = "package"
    /\ UNCHANGED << parent_exists, dir_exists, bin_file, eeprom_file >>
    /\ UNCHANGED << in_args, md_calls, cmd, exit_code, output, agg_calls,
                    result, at_start, img_base, builds >>

\* car_fob_pair handing the car output to the aggregator twice.
CarFobPairReturn_twice ==
    /\ UNCHANGED not_dev_vars
    /\ pc = "packaged"
    /\ agg_calls' = Append(agg_calls, << output[1], output[1] >>)
    /\ result' = Some(zip_step_returns(<< output[1], output[1] >>))
    /\ pc' = "done"
    /\ UNCHANGED fs_vars
    /\ UNCHANGED << in_args, md_calls, steps, cmd, exit_code, output, err,
                    raised_in, at_start, img_base, builds >>

\* make_dev returns output; car_fob_pair returns
\* zip_step_returns([car_output]).
CarFobPairReturn ==
    /\ UNCHANGED not_dev_vars
    /\ pc = "packaged"
    /\ agg_calls' = Append(agg_calls, << output[1] >>)
    /\ result' = Some(zip_step_returns(<< output[1] >>))
    /\ pc' = "done"
    /\ UNCHANGED fs_vars
    /\ UNCHANGED << in_args, md_calls, steps, cmd, exit_code, output, err,
                    raised_in, at_start, img_base, builds >>

Next ==
    \/ CarFobPairCall
    \/ MakeDevEnsureDir
    \/ MakeDevCompileStart
    \/ OtherTaskWritesImg
    \/ MakeDevCompileEnd
    \/ MakeDevPackage
    \/ CarFobPairReturn

Spec == Init /\ [][Next]_vars

(***************************************************************************)
(* Properties of the paired build, checked under Spec                      *)
(***************************************************************************)
Range(s) == {s[i] : i \in DOMAIN s}

IsPrefix(s, t) == Len(s) <= Len(t) /\ \A i \in 1..Len(s) : s[i] = t[i]

Total == FW_FLASH_SIZE + FW_EEPROM_SIZE

\* The inputs package_device read fit their regions.
InputsFit ==
    /\ bin_file # None
    /\ eeprom_file # None
    /\ Len(bin_file[1]) <= FW_FLASH_SIZE
    /\ Len(eeprom_file[1]) <= FW_EEPROM_SIZE

\* C1: when the binary b and the eeprom contents e fit their regions, the
\* image package_device wrote is exactly FLASH_SIZE + EEPROM_SIZE long: b,
\* then 0xFF up to FLASH_SIZE, then e from offset FLASH_SIZE, then 0xFF to
\* the end.
C1_ImageLayout ==
    (pc = "packaged" /\ InputsFit) =>
        /\ img_file # None
        /\ LET b == bin_file[1]
               e == eeprom_file[1]
               img == img_file[1]
           IN /\ Len(img) = Total
              /\ \A i \in 1..Len(b) : img[i] = b[i]
              /\ \A i \in (Len(b) + 1)..FW_FLASH_SIZE : img[i] = PAD
              /\ \A i \in 1..Len(e) : img[FW_FLASH_SIZE + i] = e[i]
              /\ \A i \in (FW_FLASH_SIZE + Len(e) + 1)..Total : img[i] = PAD

\* C1 witness: package_device has packed a non-empty binary and an eeprom
\* that are both shorter than their regions, so both regions are padded.
C1_Witness ==
    /\ pc = "packaged"
    /\ InputsFit
    /\ Len(bin_file[1]) >= 1
    /\ Len(bin_file[1]) < FW_FLASH_SIZE
    /\ Len(eeprom_file[1]) < FW_EEPROM_SIZE

\* C2: a binary longer than FLASH_SIZE or an eeprom longer than EEPROM_SIZE
\* makes package_device fail with ImageTooLargeError, and no image of a
\* length other than FLASH_SIZE + EEPROM_SIZE is ever written.
C2_OversizeRejected ==
    /\ (img_file # None => Len(img_file[1]) = Total)
    /\ ( /\ "package" \in Range(steps)
         /\ bin_file # None
         /\ eeprom_file # None
         /\ (Len(bin_file[1]) > FW_FLASH_SIZE \/ Len(eeprom_file[1]) > FW_EEPROM_SIZE) )
       => (pc = "raised" /\ err = "ImageTooLargeError")

\* C3: when the compile command exits non-zero the call ends with that
\* error and has not written the image file: it is as the call found it
\* (absent, or the image of an earlier build) or as another task left it
\* during the wait; packaging happens only after the compile command exited
\* with status 0.
C3_FailedCompileWritesNoImage ==
    /\ (exit_code = Some(1)) =>
          /\ pc = "raised"
          /\ raised_in = "compile"
          /\ err = "CompileError"
          /\ img_file = img_base
          /\ img_base \in {at_start.img, ForeignImg}
          /\ "package" \notin Range(steps)
    /\ ("package" \in Range(steps)) => exit_code = Some(0)

\* C3 witness: the compile command failed in an output directory that
\* holds the image of an earlier build, after writing a new binary.
C3_Witness ==
    /\ exit_code = Some(1)
    /\ pc = "raised"
    /\ at_start.img # None
    /\ bin_file # at_start.bin

\* The decimal numerals of 0, 1, 2, ...
Numerals == << "0", "1", "2", "3", "4", "5", "6", "7", "8", "9", "10", "11",
               "12", "13", "14", "15" >>

\* C5: car_fob_pair calls make_dev exactly once, with make target "car",
\* the define CAR_ID=car_id and the caller's deployment; it returns the
\* aggregation of that one step result; when the car build fails the
\* aggregator is never called and nothing is returned.
C5_PairBuildsCarOnce ==
    /\ Len(md_calls) <= 1
    /\ (pc # "idle") =>
          /\ Len(md_calls) = 1
          /\ md_calls[1].make_target = "car"
          /\ md_calls[1].defines = " CAR_ID=" \o Numerals[in_args.car_id + 1]
          /\ md_calls[1].deployment = in_args.deployment
    /\ (pc = "done") =>
          /\ output # None
          /\ agg_calls = << << output[1] >> >>
          /\ result = Some(zip_step_returns(<< output[1] >>))
          /\ result[1].stdout = output[1].stdout
    /\ (pc # "done") => (agg_calls = <<>> /\ result = None)

\* C5 witness: a paired build for a car with a two-digit id in deployment "a.a" has returned.
C5_Witness ==
    /\ pc = "done"
    /\ in_args.car_id > 9
    /\ in_args.deployment = "a.a"
    /\ result # None
    /\ cmd.make_target = "car"

\* C8: the first step of make_dev ensures the output directory: it is
\* created if absent, an existing one is kept with its files and raises no
\* error, and on every path the directory exists before the compile step.
C8_OutputDirEnsured ==
    /\ raised_in # "ensure_dir"
    /\ ("ensure_dir" \in Range(steps)) => dir_exists
    /\ ("compile" \in Range(steps)) => dir_exists
    /\ (pc = "compile") =>
          /\ bin_file = at_start.bin
          /\ eeprom_file = at_start.eeprom
          /\ img_file = at_start.img

\* C9: a call of make_dev that reached the compile step has invoked the
\* compile command exactly once, whether it failed or succeeded, and its
\* steps are taken in the order ensure-output-directory, compile, package.
C9_OneCompileInOrder ==
    /\ IsPrefix(steps, << "ensure_dir", "compile", "package" >>)
    /\ (exit_code # None) => ("compile" \in Range(steps))
    /\ (pc = "running") <=> ("compile" \in Range(steps) /\ exit_code = None)
    /\ (pc \in {"running", "package", "packaged", "done"} \/ raised_in \in {"compile", "package"})
          => Cardinality({i \in DOMAIN steps : steps[i] = "compile"}) = 1

\* C9 witness: the compile command failed and the call has ended after a
\* single invocation.
C9_Witness ==
    /\ pc = "raised"
    /\ raised_in = "compile"
    /\ steps = << "ensure_dir", "compile" >>

\* C10: package_device writes image_path only after it read both inputs:
\* when the binary or the eeprom file is missing after a successful compile
\* the call raises, the image file is as it was before the call or as
\* another task left it during the compile, and car_fob_pair returns
\* nothing; an image is written only when both inputs were read.
C10_ImageWrittenAfterReads ==
    /\ (raised_in = "package") =>
          /\ pc = "raised"
          /\ err = "FileNotFoundError"
          /\ exit_code = Some(0)
          /\ (bin_file = None \/ eeprom_file = None)
          /\ img_file = img_base
          /\ img_base \in {at_start.img, ForeignImg}
          /\ result = None
    /\ ("package" \in Range(steps) /\ (bin_file = None \/ eeprom_file = None))
          => raised_in = "package"

\* C10 witness: the compile succeeded and left a binary but no eeprom file
\* in a directory holding an earlier image; packaging has raised.
C10_Witness ==
    /\ raised_in = "package"
    /\ at_start.img # None
    /\ bin_file # None
    /\ eeprom_file = None

(***************************************************************************)
(* The secrets volume of successive device builds (SpecVol)                *)
(***************************************************************************)
\* How many paired builds run one after the other.
MaxBuilds == 2

\* A paired build has ended and the caller is ready to start another one in
\* the same output directory.
CarFobPairAgain ==
    /\ UNCHANGED not_dev_vars
    /\ pc \in {"done", "raised"}
    /\ Len(builds) < MaxBuilds
    /\ pc' = "idle"
    /\ in_args' = NoArgs
    /\ md_calls' = <<>>
    /\ steps' = <<>>
    /\ cmd' = NoCmd
    /\ exit_code' = None
    /\ output' = None
    /\ agg_calls' = <<>>
    /\ result' = None
    /\ err' = ""
    /\ raised_in' = ""
    /\ UNCHANGED << at_start, img_base, builds >>
    /\ UNCHANGED fs_vars

\* Paired builds for every (image, name, deployment) triple of valid names.
VolCarFobPairCall == CarFobPairCallOn(Names, Names, Names, {0})

\* The compile step of these builds writes the artifacts of OldBin and
\* OldEeprom or leaves them out.
VolMakeDevCompileEnd ==
    MakeDevCompileEndOn({OldBin}, {OldEeprom},
                        {[stdout |-> "make: done", stderr |-> ""]})

InitVol ==
    /\ EmptyFs
    /\ InitDev
    /\ InitEnv
    /\ env_images = {}
    /\ builds = <<>>
    /\ img_base = None

NextVol ==
    \/ VolCarFobPairCall
    \/ MakeDevEnsureDir
    \/ MakeDevCompileStart
    \/ VolMakeDevCompileEnd
    \/ MakeDevPackage
    \/ CarFobPairReturn
    \/ CarFobPairAgain

SpecVol == InitVol /\ [][NextVol]_vars

Triple(b) == << b.image, b.name, b.deployment >>

\* C4: two device builds mount the same secrets volume if and only if their
\* (image, name, deployment) triples are equal.
C4_VolumeIsolatesDeployments ==
    \A i \in DOMAIN builds : \A j \in DOMAIN builds :
        (builds[i].volume = builds[j].volume)
            <=> (Triple(builds[i]) = Triple(builds[j]))

(***************************************************************************)
(* env (SpecEnv)                                                           *)
(***************************************************************************)
\* What the rest of the model keeps during an environment build.
not_env_vars == << parent_exists, dir_exists, bin_file, eeprom_file, img_file,
                  pc, in_args, md_calls, steps, cmd, exit_code, output,
                  agg_calls, result, err, raised_in, at_start, img_base,
                  builds >>

EnvNames == {"a", "aa"}
EnvTags == {Tag(DefaultImage, n) : n \in EnvNames}

\* The text of a log entry, as a sequence of characters.
TextChars == {" ", "x"}
LogTexts == SeqsUpTo(TextChars, MaxText)
\* An entry of the runtime's build log: a dict with one key.
LogEntries == [key : {"stream", "status"}, text : LogTexts]
BuildLogs == SeqsUpTo(LogEntries, MaxLog)

RECURSIVE LStrip(_)
LStrip(t) == IF t # <<>> /\ Head(t) = " " THEN LStrip(Tail(t)) ELSE t

RECURSIVE RStrip(_)
RStrip(t) ==
    IF t # <<>> /\ t[Len(t)] = " " THEN RStrip(SubSeq(t, 1, Len(t) - 1)) ELSE t

\* str.strip()
Strip(t) == RStrip(LStrip(t))

\* A handler that logs nothing of the build log.
EmitNothing(log) == <<>>

RECURSIVE EmitBuildLog(_)
\* for log in e.build_log:
\*     if "stream" in log and log["stream"].strip(): logger.error(log["stream"].strip())
EmitBuildLog(log) ==
    IF log = <<>> THEN <<>>
    ELSE LET l == Head(log)
         IN (IF l.key = "stream" /\ Strip(l.text) # <<>>
             THEN << [level |-> "error", msg |-> Str(Strip(l.text))] >>
             ELSE <<>>)
            \o EmitBuildLog(Tail(log))

RECURSIVE JoinStreams(_)
\* "".join([d["stream"] for d in list(logs_raw) if "stream" in d])
JoinStreams(log) ==
    IF log = <<>> THEN ""
    ELSE (IF Head(log).key = "stream" THEN Str(Head(log).text) ELSE "")
         \o JoinStreams(Tail(log))

EnvTag == Tag(DefaultImage, env_args.name)

\* env is called: the tag is formed and "Building image" is logged.
EnvCall ==
    /\ UNCHANGED not_env_vars
    /\ env_pc = "idle"
    /\ \E name \in EnvNames, manifest_exists \in BOOLEAN :
         /\ env_args' = [name |-> name, manifest_exists |-> manifest_exists,
                         images |-> env_images]
         /\ env_logged' = Append(env_logged,
                [level |-> "info",
                 msg |-> "Building image " \o Tag(DefaultImage, name)])
    /\ env_pc' = "open"
    /\ UNCHANGED << env_docker, env_images, env_build_log, env_err,
                    env_result >>

\* "Add build directory to context": open(dockerfile_name) raises
\* FileNotFoundError when the manifest is absent; otherwise the context is
\* packed with tar and docker.from_env() creates the runtime client.
EnvReadManifest ==
    /\ UNCHANGED not_env_vars
    /\ env_pc = "open"
    /\ IF env_args.manifest_exists
       THEN /\ env_docker' = Append(env_docker, "from_env")
            /\ env_pc' = "build"
            /\ UNCHANGED env_err
       ELSE /\ env_pc' = "raised"
            /\ env_err' = "FileNotFoundError"
            /\ UNCHANGED env_docker
    /\ UNCHANGED << env_args, env_images, env_logged, env_build_log,
                    env_result >>

\* env's handler for the failed build, as a function of the emitter: the
\* error is logged, the build log is emitted, and the exception is raised
\* again.
EnvBuildFailed(log, emitted) ==
    /\ env_docker' = Append(env_docker, "build:BuildError")
    /\ env_build_log' = log
    /\ env_logged' = env_logged
          \o << [level |-> "error", msg |-> "Docker build error: build failed"] >>
          \o emitted
    /\ env_err' = "BuildError"
    /\ env_pc' = "raised"
    /\ UNCHANGED env_images

\* "run docker build": client.images.build(tag=tag, ...) either returns the
\* log stream, and the tag now names the new image, or raises BuildError
\* carrying the build log, which env logs and raises again.
EnvBuild ==
    /\ UNCHANGED not_env_vars
    /\ env_pc = "build"
    /\ \E log \in BuildLogs :
         \/ /\ env_docker' = Append(env_docker, "build:ok")
            /\ env_build_log' = log
            /\ env_images' = env_images \cup {EnvTag}
            /\ env_logged' = Append(env_logged,
                   [level |-> "info", msg |-> "Built image " \o EnvTag])
            /\ env_pc' = "built"
            /\ UNCHANGED env_err
         \/ EnvBuildFailed(log, EmitBuildLog(log))
    /\ UNCHANGED << env_args, env_result >>

\* return logs.encode(), b""
EnvReturn ==
    /\ UNCHANGED not_env_vars
    /\ env_pc = "built"
    /\ env_result' = Some([stdout |-> JoinStreams(env_build_log), stderr |-> ""])
    /\ env_pc' = "done"
    /\ UNCHANGED << env_args, env_docker, env_images, env_logged,
                    env_build_log, env_err >>

\* The environment build starts with any set of tags already built.
InitE ==
    /\ EmptyFs
    /\ InitDev
    /\ InitEnv
    /\ env_images \in SUBSET EnvTags
    /\ builds = <<>>
    /\ img_base = None

NextEnv ==
    \/ EnvCall
    \/ EnvReadManifest
    \/ EnvBuild
    \/ EnvReturn

SpecEnv == InitE /\ [][NextEnv]_vars

(***************************************************************************)
(* Properties of env, checked under SpecEnv                                *)
(***************************************************************************)
NonBlank(t) == \E i \in DOMAIN t : t[i] # " "

IsStreamLine(e) == e.key = "stream" /\ NonBlank(e.text)

\* The logger records for the entries of a build log that carry non-blank
\* stream text: the stripped text of each, in the order of the log.
StreamRecords(log) ==
    LET sel == SelectSeq(log, IsStreamLine)
    IN [i \in 1..Len(sel) |-> [level |-> "error", msg |-> Str(Strip(sel[i].text))]]

BuildFailed == "build:BuildError" \in Range(env_docker)

\* C6 as stated: after a failed image build env ends with the BuildError,
\* returns nothing, and every non-empty entry of the build log has been
\* handed to the logger.
C6_EveryEntryEmitted ==
    BuildFailed =>
        /\ env_pc = "raised"
        /\ env_err = "BuildError"
        /\ env_result = None
        /\ \A i \in DOMAIN env_build_log :
              NonBlank(env_build_log[i].text) =>
                  \E j \in DOMAIN env_logged :
                      env_logged[j].msg = Str(Strip(env_build_log[i].text))

\* C6 (amended): after a failed image build env ends with the BuildError
\* and returns nothing; what it logged before raising is "Building image",
\* the error, and then the stripped text of exactly those log entries that
\* have a "stream" field with non-blank text, in log order.  Entries
\* without a "stream" field are not emitted.
C6_StreamEntriesEmitted ==
    BuildFailed =>
        /\ env_pc = "raised"
        /\ env_err = "BuildError"
        /\ env_result = None
        /\ env_images = env_args.images
        /\ Len(env_logged) = 2 + Len(StreamRecords(env_build_log))
        /\ env_logged[1].level = "info"
        /\ env_logged[2] = [level |-> "error",
                            msg |-> "Docker build error: build failed"]
        /\ SubSeq(env_logged, 3, Len(env_logged)) = StreamRecords(env_build_log)

\* C6 witness: the build failed with a log holding a stream entry with
\* surrounding blanks and an entry without a stream field.
C6_Witness ==
    /\ BuildFailed
    /\ env_pc = "raised"
    /\ Len(env_build_log) = 2
    /\ env_build_log[1] = [key |-> "stream", text |-> << " ", "x" >>]
    /\ env_build_log[2].key = "status"
    /\ NonBlank(env_build_log[2].text)

\* C7: with the manifest file absent env fails with ConfigError before any
\* call on the container runtime, and no tag is created or overwritten.
C7_MissingManifestConfigError ==
    (~env_args.manifest_exists /\ env_pc \notin {"idle", "open"}) =>
        /\ env_pc = "raised"
        /\ env_err = "ConfigError"
        /\ env_docker = <<>>
        /\ env_images = env_args.images
        /\ env_result = None

\* The part of C7 that env does satisfy: the failure on a missing manifest
\* comes before any call on the container runtime and leaves its tags as
\* they were.
EnvMissingManifestFailsFirst ==
    (~env_args.manifest_exists /\ env_pc \notin {"idle", "open"}) =>
        /\ env_pc = "raised"
        /\ env_docker = <<>>
        /\ env_images = env_args.images
        /\ env_result = None

====
